---- MODULE Spec2Model ----
(***************************************************************************)
(* Model of the piece download engine of the BitTorrent client             *)
(* (downloadPiece and the peer wire messages it reads and writes).         *)
(*                                                                         *)
(* Byte sequences are kept run-length encoded: a sequence of runs          *)
(* [b |-> byte value, n |-> repeat count], always in canonical form (no    *)
(* empty run, no two adjacent runs with the same byte), so that equal byte *)
(* sequences are equal values and a 16 KiB block is one run.               *)
(***************************************************************************)
EXTENDS Integers, Sequences, FiniteSets, TLC

\* ------------------------------------------------------------------------
\* Bounds of the model
\* ------------------------------------------------------------------------
\* the largest short count a single conn.Read may return
MaxShort == 3
\* piece lengths span up to this many 16 KiB blocks
MaxBlocks == 2
\* torrents have up to this many pieces
MaxPieces == 3
\* compact peer lists have up to this many bytes
MaxPeerBytes == 13
\* bencoded integers range over -MaxInt..MaxInt
MaxInt == 110
\* bencoded byte strings have up to this many bytes
MaxStrLen == 2

\* ------------------------------------------------------------------------
\* Program constants
\* ------------------------------------------------------------------------
BIT_FIELD_MESSAGE_ID == 5
INTERESTED_MESSAGE_ID == 2
UNCHOKE_MESSAGE_ID == 1
BLOCK_SIZE == 16384
REQUEST_MESSAGE_ID == 6
PIECE_MESSAGE_ID == 7

\* ------------------------------------------------------------------------
\* Byte sequences (run-length encoded)
\* ------------------------------------------------------------------------
Min(a, b) == IF a < b THEN a ELSE b

Run(b, n) == IF n > 0 THEN <<[b |-> b, n |-> n]>> ELSE <<>>

RECURSIVE Norm(_)
Norm(s) ==
    IF Len(s) = 0 THEN <<>>
    ELSE IF s[1].n = 0 THEN Norm(Tail(s))
    ELSE IF Len(s) = 1 THEN s
    ELSE IF s[2].n = 0 THEN Norm(<<s[1]>> \o Tail(Tail(s)))
    ELSE IF s[1].b = s[2].b
         THEN Norm(<<[b |-> s[1].b, n |-> s[1].n + s[2].n]>> \o Tail(Tail(s)))
         ELSE <<s[1]>> \o Norm(Tail(s))

\* append(a, b...)
\* canonical form: no empty run, no two neighbouring runs of the same byte
IsNorm(s) ==
    \A k \in 1..Len(s) : s[k].n > 0 /\ (k < Len(s) => s[k].b # s[k + 1].b)

\* two canonical sequences are joined at the seam
Cat(a, b) ==
    IF ~(IsNorm(a) /\ IsNorm(b)) THEN Norm(a \o b)
    ELSE IF Len(a) = 0 THEN b
    ELSE IF Len(b) = 0 THEN a
    ELSE IF a[Len(a)].b # b[1].b THEN a \o b
    ELSE SubSeq(a, 1, Len(a) - 1) \o <<[b |-> b[1].b, n |-> a[Len(a)].n + b[1].n]>> \o Tail(b)

\* []byte{...}
Lit(bytes) == Norm([k \in 1..Len(bytes) |-> [b |-> bytes[k], n |-> 1]])

RECURSIVE BytesLen(_)
BytesLen(s) == IF Len(s) = 0 THEN 0 ELSE s[1].n + BytesLen(Tail(s))

\* s[:k]
RECURSIVE TakeB(_, _)
TakeB(s, k) ==
    IF k <= 0 \/ Len(s) = 0 THEN <<>>
    ELSE IF s[1].n <= k THEN <<s[1]>> \o TakeB(Tail(s), k - s[1].n)
    ELSE <<[b |-> s[1].b, n |-> k]>>

\* s[k:]
RECURSIVE DropB(_, _)
DropB(s, k) ==
    IF k <= 0 \/ Len(s) = 0 THEN s
    ELSE IF s[1].n <= k THEN DropB(Tail(s), k - s[1].n)
    ELSE <<[b |-> s[1].b, n |-> s[1].n - k]>> \o Tail(s)

\* s[k], k counted from 0; requires k < len(s)
ByteAt(s, k) == DropB(s, k)[1].b

\* binary.BigEndian.PutUint32
U32Bytes(x) == <<x \div 16777216, (x \div 65536) % 256, (x \div 256) % 256, x % 256>>

\* binary.BigEndian.Uint32
U32(b) == ((b[1] * 256 + b[2]) * 256 + b[3]) * 256 + b[4]

\* math.Ceil(float64(a) / float64(b)) for the integers of the model
CeilDiv(a, b) == (a + b - 1) \div b

\* ------------------------------------------------------------------------
\* Piece digests
\* ------------------------------------------------------------------------
\* 1 + 2 + ... + n, modulo 251 (126 is the inverse of 2 modulo 251)
Tri(n) == ((n % 251) * ((n + 1) % 251) * 126) % 251

RECURSIVE WeightedSum(_, _)
WeightedSum(s, at) ==
    IF Len(s) = 0 THEN 0
    ELSE (s[1].b * ((Tri(at + s[1].n) - Tri(at) + 251) % 251)
          + WeightedSum(Tail(s), at + s[1].n)) % 251

\* fmt.Sprintf("%x", sha1.Sum(data)): the digest of a byte sequence, printed
\* in hexadecimal; two printed digests are equal exactly when the digests
\* are.  SHA-1 is stood for by a position-weighted checksum: the sum of
\* (p + 1) * data[p] modulo 251, a function of the bytes and of their order
\* that, like any digest, has collisions.
Sha1Sum(data) == WeightedSum(data, 0)

\* ------------------------------------------------------------------------
\* Torrents
\* ------------------------------------------------------------------------
\* info["piece length"]
PieceLengths ==
    {4} \cup {k * BLOCK_SIZE + r : k \in 0..(MaxBlocks - 1), r \in {1, BLOCK_SIZE}}

\* info["length"], for a piece length: a whole number of pieces, or a last
\* piece of half the length
FileLengths(pl) ==
    {(p - 1) * pl + last : p \in 1..MaxPieces, last \in {pl, pl \div 2} \ {0}}

\* number of pieces of the file
NumPieces(flen, plen) == CeilDiv(flen, plen)

\* the length of piece idx of the file
TruePieceLen(flen, plen, idx) == Min(plen, flen - idx * plen)

\* the bytes of block j of piece idx of the file: one byte value per block
BlockBytes(idx, j, n) == Run(1 + j + 4 * idx, n)

\* the bytes of the first nb blocks of a piece of length len
RECURSIVE PieceBlocks(_, _, _)
PieceBlocks(idx, len, nb) ==
    IF nb = 0 THEN <<>>
    ELSE Cat(PieceBlocks(idx, len, nb - 1),
             BlockBytes(idx, nb - 1, Min(BLOCK_SIZE, len - (nb - 1) * BLOCK_SIZE)))

PieceBytes(flen, plen, idx) ==
    LET len == TruePieceLen(flen, plen, idx)
    IN  PieceBlocks(idx, len, CeilDiv(len, BLOCK_SIZE))

\* ParsedTorrentFile.info as getPieces builds it: one printed digest per piece
TorrentInfo(flen, plen) ==
    [length |-> flen,
     pieceLength |-> plen,
     pieces |-> [k \in 1..NumPieces(flen, plen) |-> Sha1Sum(PieceBytes(flen, plen, k - 1))]]

Torrents == UNION {{TorrentInfo(l, q) : l \in FileLengths(q)} : q \in PieceLengths}

\* ------------------------------------------------------------------------
\* Peer wire messages, as the bytes the remote peer puts on the stream
\* ------------------------------------------------------------------------
\* [4-byte big-endian length][id][payload]
Message(id, payload) == Cat(Lit(U32Bytes(1 + BytesLen(payload)) \o <<id>>), payload)

KeepAlive == Lit(<<0, 0, 0, 0>>)
BitfieldMsg == Message(BIT_FIELD_MESSAGE_ID, Lit(<<64>>))
UnchokeMsg == Message(UNCHOKE_MESSAGE_ID, <<>>)
ChokeMsg == Message(0, <<>>)
HaveMsg == Message(4, Lit(U32Bytes(0)))
PieceMsg(idx, off, block) ==
    Message(PIECE_MESSAGE_ID, Cat(Lit(U32Bytes(idx) \o U32Bytes(off)), block))

\* What a peer may send for piece idx: each element is one message.
PeerScripts(flen, plen, idx) ==
    LET len == TruePieceLen(flen, plen, idx)
        nb == CeilDiv(len, BLOCK_SIZE)
        blen(j) == Min(BLOCK_SIZE, len - j * BLOCK_SIZE)
        Blk(j) == PieceMsg(idx, j * BLOCK_SIZE, BlockBytes(idx, j, blen(j)))
        Honest == [k \in 1..nb |-> Blk(k - 1)]
        Reversed == [k \in 1..nb |-> Blk(nb - k)]
        Corrupt == [k \in 1..nb |->
                      IF k < nb THEN Blk(k - 1)
                      ELSE PieceMsg(idx, (nb - 1) * BLOCK_SIZE, Run(99, blen(nb - 1)))]
        Short == SubSeq(Honest, 1, nb - 1)
        CutMid == [k \in 1..nb |->
                      IF k < nb THEN Blk(k - 1)
                      ELSE TakeB(Blk(nb - 1), BytesLen(Blk(nb - 1)) - 1)]
        first == {<<BitfieldMsg>>, <<KeepAlive, BitfieldMsg>>, <<Blk(0)>>}
        second == {<<UnchokeMsg>>, <<KeepAlive, UnchokeMsg>>, <<ChokeMsg>>}
        third == {Honest, Reversed, Corrupt, Short, CutMid,
                  <<KeepAlive>> \o Honest, <<HaveMsg>> \o Honest}
    IN  {a \o b \o c : <<a, b, c>> \in first \X second \X third}

\* the whole byte stream of a script
RECURSIVE Wire(_)
Wire(script) ==
    IF Len(script) = 0 THEN <<>> ELSE Cat(script[1], Wire(Tail(script)))

\* the stream offsets at which a message of the script begins or ends
RECURSIVE Boundaries(_)
Boundaries(script) ==
    IF Len(script) = 0 THEN {0}
    ELSE {0} \cup {BytesLen(script[1]) + o : o \in Boundaries(Tail(script))}

\* ------------------------------------------------------------------------
\* State
\* ------------------------------------------------------------------------
VARIABLES
    torrent,      \* parsedTorrentFile.info: length, pieceLength, pieces
    index,        \* the piece index downloadPiece is called with
    stream,       \* conn: the bytes the peer sent that are not read yet
    pos,          \* conn: how many bytes of the peer's stream have been read
    marks,        \* the message boundaries of the peer's stream
    pc,           \* the statement downloadPiece is at
    msgLen,       \* messageLength of the message being read
    log,          \* what happened on conn, in order: writes and messages read
    pieceLength,  \* local pieceLength (the effective length of the piece)
    blockCnt,     \* local blockCnt
    i,            \* loop counter of the block loop
    data,         \* local data: the bytes assembled so far
    result,       \* <<bytes>> once downloadPiece has returned bytes, else << >>
    failure       \* the panic downloadPiece ended with, "" if none

VARIABLES
    cmd,              \* the statement the download command is at
    pieceIndex,       \* download: the loop variable pieceIndex
    file,             \* download: what was written to the output file, one
                      \* element per file.Write
    conns,            \* download: how many connections are open
    handshakeMessage, \* the HandshakeMessage the command builds
    hs,               \* performHandshake: bytes written, count read, response
    input,            \* the argument of the function under study
    output            \* its outcome, << >> before the call

\* the state of downloadPiece and of its connection
dpvars == <<torrent, index, stream, pos, marks, pc, msgLen, log,
            pieceLength, blockCnt, i, data, result, failure>>

\* the state of the download command around downloadPiece
outer == <<cmd, pieceIndex, file, conns, handshakeMessage, hs>>

\* the state of the studies of single functions
fnvars == <<input, output>>

vars == <<torrent, index, stream, pos, marks, pc, msgLen, log,
          pieceLength, blockCnt, i, data, result, failure,
          cmd, pieceIndex, file, conns, handshakeMessage, hs, input, output>>

\* ------------------------------------------------------------------------
\* conn.Read, conn.Write
\* ------------------------------------------------------------------------
\* the counts conn.Read(buf) may return without error for len(buf) = n when
\* avail bytes of the stream are left: all it can, or a short count
ReadCounts(n, avail) ==
    IF n = 0 THEN {0}
    ELSE {Min(n, avail)} \cup {k \in 1..MaxShort : k <= n /\ k <= avail}

\* a 4-byte buffer, zeroed by make, after conn.Read returned k
PrefixBuf(s, k) == [j \in 1..4 |-> IF j <= k THEN ByteAt(s, j - 1) ELSE 0]

\* log entries: a message read (its id, its length prefix, the bytes read into
\* the buffer, the stream offset after the read) and a message written
Recv(id, len, bytes, end) ==
    [op |-> "recv", id |-> id, len |-> len, bytes |-> bytes, end |-> end]
Write(id, bytes, end) ==
    [op |-> "write", id |-> id, len |-> BytesLen(bytes), bytes |-> bytes, end |-> end]

\* binary.Write(&buff, binary.BigEndian, peerMessage) for a request
RequestBytes(idx, off, len) ==
    Lit(U32Bytes(13) \o <<REQUEST_MESSAGE_ID>> \o U32Bytes(idx) \o U32Bytes(off) \o U32Bytes(len))

InterestedBytes == Lit(<<0, 0, 0, 1, INTERESTED_MESSAGE_ID>>)

\* ------------------------------------------------------------------------
\* performHandshake, getBytes
\* ------------------------------------------------------------------------
\* []byte("BitTorrent protocol")
ProtocolName ==
    Lit(<<66, 105, 116, 84, 111, 114, 114, 101, 110, 116, 32,
          112, 114, 111, 116, 111, 99, 111, 108>>)

\* []byte("00112233445566778899")
LocalPeerId == Lit(<<48, 48, 49, 49, 50, 50, 51, 51, 52, 52, 53, 53, 54, 54, 55, 55, 56, 56, 57, 57>>)

\* hex.DecodeString(parsedTorrentFile.infoHash): 20 bytes
InfoHashes == {Cat(Run(17, 10), Run(34, 10)), Run(85, 20)}

\* HandshakeMessage{Length: 19, Protocol: "BitTorrent protocol", InfoHash: ..., PeerId: ...}
NewHandshakeMessage(infoHash) ==
    [Length |-> 19, Protocol |-> ProtocolName, InfoHash |-> infoHash, PeerId |-> LocalPeerId]

\* nothing written, nothing read, no response
HsNone == [written |-> <<>>, n |-> 0, response |-> <<>>]

\* the download command and the function studies are not running
OuterIdle ==
    /\ cmd = "idle"
    /\ pieceIndex = 0
    /\ file = <<>>
    /\ conns = 0
    /\ handshakeMessage = NewHandshakeMessage(Run(85, 20))
    /\ hs = HsNone

FnIdle == input = <<>> /\ output = <<>>

\* ------------------------------------------------------------------------
\* downloadPiece
\* ------------------------------------------------------------------------
Init ==
    /\ OuterIdle
    /\ FnIdle
    /\ torrent \in Torrents
    /\ index \in 0..(Len(torrent.pieces) - 1)
    /\ \E script \in PeerScripts(torrent.length, torrent.pieceLength, index) :
          /\ stream = Wire(script)
          /\ marks = Boundaries(script)
    /\ pos = 0
    /\ pc = "bitfieldLen"
    /\ msgLen = 0
    /\ log = <<>>
    /\ pieceLength = 0
    /\ blockCnt = 0
    /\ i = 0
    /\ data = <<>>
    /\ result = <<>>
    /\ failure = ""

\* conn.Read of a 4-byte length prefix, panic on error
ReadLength(at, next) ==
    /\ pc = at
    /\ IF BytesLen(stream) = 0
       THEN /\ pc' = "failed"
            /\ failure' = "EOF"
            /\ UNCHANGED <<stream, pos, msgLen>>
       ELSE \E k \in ReadCounts(4, BytesLen(stream)) :
               /\ msgLen' = U32(PrefixBuf(stream, k))
               /\ stream' = DropB(stream, k)
               /\ pos' = pos + k
               /\ pc' = next
               /\ UNCHANGED failure
    /\ UNCHANGED <<torrent, index, marks, log, pieceLength, blockCnt, i, data, result>>

\* the bitfield check with the comparison loosened: any id from 5 up passes
IsBitfield_AtLeast(id) == id >= BIT_FIELD_MESSAGE_ID

IsBitfield(id) == id = BIT_FIELD_MESSAGE_ID

\* the unchoke check with the comparison loosened: choke (0) passes too
IsUnchoke_AtMost(id) == id <= UNCHOKE_MESSAGE_ID

IsUnchoke(id) == id = UNCHOKE_MESSAGE_ID

\* conn.Read of messageLength bytes, then the check of byte 0, the message id
ReadId(at, accepts, next, complaint) ==
    /\ pc = at
    /\ IF msgLen = 0
       THEN \* a zero-length read returns 0, nil; buf[0] is out of range
            /\ pc' = "failed"
            /\ failure' = "index out of range"
            /\ UNCHANGED <<stream, pos, log>>
       ELSE IF BytesLen(stream) = 0
       THEN /\ pc' = "failed"
            /\ failure' = "EOF"
            /\ UNCHANGED <<stream, pos, log>>
       ELSE \E k \in ReadCounts(msgLen, BytesLen(stream)) :
               /\ stream' = DropB(stream, k)
               /\ pos' = pos + k
               /\ log' = Append(log, Recv(ByteAt(stream, 0), msgLen, TakeB(stream, k), pos + k))
               /\ IF accepts
                  THEN pc' = next /\ UNCHANGED failure
                  ELSE pc' = "failed" /\ failure' = complaint
    /\ UNCHANGED <<torrent, index, marks, msgLen, pieceLength, blockCnt, i, data, result>>

\* wait for bitfield message: the length prefix
AwaitBitfieldLength == ReadLength("bitfieldLen", "bitfieldId")

\* wait for bitfield message: the id
AwaitBitfieldId ==
    ReadId("bitfieldId", BytesLen(stream) > 0 /\ IsBitfield(ByteAt(stream, 0)),
           "interested", "expected bitfield message")

\* send an interested message
SendInterested ==
    /\ pc = "interested"
    /\ log' = Append(log, Write(INTERESTED_MESSAGE_ID, InterestedBytes, pos))
    /\ pc' = "unchokeLen"
    /\ UNCHANGED <<torrent, index, stream, pos, marks, msgLen,
                   pieceLength, blockCnt, i, data, result, failure>>

\* wait for unchoke message: the length prefix
AwaitUnchokeLength == ReadLength("unchokeLen", "unchokeId")

\* wait for unchoke message: the id
AwaitUnchokeId ==
    ReadId("unchokeId", BytesLen(stream) > 0 /\ IsUnchoke(ByteAt(stream, 0)),
           "blocks", "expected unchoke message")

\* the piece length without the adjustment for the last piece
EffectiveLength_NoRemainder(fileLength, plen, idx) == plen

\* the length of the piece to download: the last piece takes the remainder
EffectiveLength(fileLength, plen, idx) ==
    LET pieceCnt == CeilDiv(fileLength, plen)
    IN  IF idx = pieceCnt - 1 THEN fileLength % plen ELSE plen

\* the block length without the truncation of the last block
BlockLength_Fixed(k, cnt, plen) == BLOCK_SIZE

\* the length of block k of a piece of length plen split in cnt blocks
BlockLength(k, cnt, plen) ==
    IF k = cnt - 1 THEN plen - ((cnt - 1) * BLOCK_SIZE) ELSE BLOCK_SIZE

\* for i := ...; i < blockCnt; ...
LoopHead(k, cnt) == IF k < cnt THEN "request" ELSE "verify"

\* download piece: the piece and block counts
ComputeBlocks ==
    /\ pc = "blocks"
    /\ pieceLength' = EffectiveLength(torrent.length, torrent.pieceLength, index)
    /\ blockCnt' = CeilDiv(pieceLength', BLOCK_SIZE)
    /\ data' = <<>>
    /\ i' = 0
    /\ pc' = LoopHead(0, blockCnt')
    /\ UNCHANGED <<torrent, index, stream, pos, marks, msgLen, log, result, failure>>

\* the request for block i
RequestWrite(k) ==
    Write(REQUEST_MESSAGE_ID,
          RequestBytes(index, k * BLOCK_SIZE, BlockLength(k, blockCnt, pieceLength)), pos)

\* the requests of block i and of the block after it written back to back
SendRequest_Pipelined ==
    /\ pc = "request"
    /\ log' = IF i + 1 < blockCnt
              THEN log \o <<RequestWrite(i), RequestWrite(i + 1)>>
              ELSE Append(log, RequestWrite(i))
    /\ pc' = "pieceLen"
    /\ UNCHANGED <<torrent, index, stream, pos, marks, msgLen,
                   pieceLength, blockCnt, i, data, result, failure>>

\* send the request message of block i
SendRequest ==
    /\ pc = "request"
    /\ log' = Append(log, RequestWrite(i))
    /\ pc' = "pieceLen"
    /\ UNCHANGED <<torrent, index, stream, pos, marks, msgLen,
                   pieceLength, blockCnt, i, data, result, failure>>

\* wait for piece message: the length prefix; io.EOF leaves the block loop
AwaitPieceLength ==
    /\ pc = "pieceLen"
    /\ IF BytesLen(stream) = 0
       THEN /\ pc' = "verify"
            /\ UNCHANGED <<stream, pos, msgLen>>
       ELSE \E k \in ReadCounts(4, BytesLen(stream)) :
               /\ msgLen' = U32(PrefixBuf(stream, k))
               /\ stream' = DropB(stream, k)
               /\ pos' = pos + k
               /\ pc' = "piecePayload"
    /\ UNCHANGED <<torrent, index, marks, log, pieceLength, blockCnt, i, data, result, failure>>

\* where the block of a piece message goes in data
AppendBlock(d, payload) == Cat(d, DropB(payload, 9))

\* wait for piece message: io.ReadFull of the payload, the id check, the
\* index and offset fields, and the append of the block to data
AwaitPiecePayload ==
    /\ pc = "piecePayload"
    /\ IF BytesLen(stream) < msgLen
       THEN \* io.ReadFull meets the end of the stream
            /\ pc' = "failed"
            /\ failure' = IF BytesLen(stream) = 0 THEN "EOF" ELSE "unexpected EOF"
            /\ stream' = <<>>
            /\ pos' = pos + BytesLen(stream)
            /\ UNCHANGED <<log, data, i>>
       ELSE LET payloadMessageBytes == TakeB(stream, msgLen)
            IN  /\ stream' = DropB(stream, msgLen)
                /\ pos' = pos + msgLen
                /\ IF msgLen = 0
                   THEN /\ pc' = "failed"
                        /\ failure' = "index out of range"
                        /\ UNCHANGED <<log, data, i>>
                   ELSE /\ log' = Append(log, Recv(ByteAt(payloadMessageBytes, 0), msgLen,
                                                   payloadMessageBytes, pos + msgLen))
                        /\ IF ByteAt(payloadMessageBytes, 0) # PIECE_MESSAGE_ID
                           THEN /\ pc' = "failed"
                                /\ failure' = "expected piece message"
                                /\ UNCHANGED <<data, i>>
                           ELSE IF msgLen < 9
                           THEN /\ pc' = "failed"
                                /\ failure' = "slice bounds out of range"
                                /\ UNCHANGED <<data, i>>
                           ELSE /\ data' = AppendBlock(data, payloadMessageBytes)
                                /\ i' = i + 1
                                /\ pc' = LoopHead(i + 1, blockCnt)
                                /\ UNCHANGED failure
    /\ UNCHANGED <<torrent, index, marks, msgLen, pieceLength, blockCnt, result>>

\* the digest comparison left out: only the index is looked at
DigestMatches_Unchecked(d, pieces, idx) == idx < Len(pieces)

\* downloadedDataHash != parsedTorrentFile.info.pieces[index]
DigestMatches(d, pieces, idx) == Sha1Sum(d) = pieces[idx + 1]

\* the digest check and the return of data
VerifyPiece ==
    /\ pc = "verify"
    /\ IF index >= Len(torrent.pieces)
       THEN pc' = "failed" /\ failure' = "index out of range" /\ UNCHANGED result
       ELSE IF DigestMatches(data, torrent.pieces, index)
       THEN pc' = "returned" /\ result' = <<data>> /\ UNCHANGED failure
       ELSE /\ pc' = "failed"
            /\ failure' = "downloaded data hash doesn't match"
            /\ UNCHANGED result
    /\ UNCHANGED <<torrent, index, stream, pos, marks, msgLen, log,
                   pieceLength, blockCnt, i, data>>

\* conn.Read or conn.Write returns an error other than io.EOF
ConnError ==
    /\ pc \in {"bitfieldLen", "bitfieldId", "interested", "unchokeLen", "unchokeId",
               "request", "pieceLen", "piecePayload"}
    \* a read into an empty buffer returns at once, without an error
    /\ pc \in {"bitfieldId", "unchokeId", "piecePayload"} => msgLen > 0
    /\ pc' = "failed"
    /\ failure' = "connection error"
    /\ UNCHANGED <<torrent, index, stream, pos, marks, msgLen, log,
                   pieceLength, blockCnt, i, data, result>>

Next ==
    \/ AwaitBitfieldLength /\ UNCHANGED <<outer, fnvars>>
    \/ AwaitBitfieldId /\ UNCHANGED <<outer, fnvars>>
    \/ SendInterested /\ UNCHANGED <<outer, fnvars>>
    \/ AwaitUnchokeLength /\ UNCHANGED <<outer, fnvars>>
    \/ AwaitUnchokeId /\ UNCHANGED <<outer, fnvars>>
    \/ ComputeBlocks /\ UNCHANGED <<outer, fnvars>>
    \/ SendRequest /\ UNCHANGED <<outer, fnvars>>
    \/ AwaitPieceLength /\ UNCHANGED <<outer, fnvars>>
    \/ AwaitPiecePayload /\ UNCHANGED <<outer, fnvars>>
    \/ VerifyPiece /\ UNCHANGED <<outer, fnvars>>
    \/ ConnError /\ UNCHANGED <<outer, fnvars>>

Spec == Init /\ [][Next]_vars

TypeOK ==
    /\ pc \in {"idle", "bitfieldLen", "bitfieldId", "interested", "unchokeLen", "unchokeId",
               "blocks", "request", "pieceLen", "piecePayload", "verify",
               "returned", "failed"}
    /\ pos >= 0
    /\ Len(result) <= 1


\* ------------------------------------------------------------------------
\* The download command: one connection and one handshake per piece
\* ------------------------------------------------------------------------
\* getBytes without the 8 reserved bytes
getBytes_NoReserved(h) ==
    Cat(Cat(Cat(Lit(<<h.Length % 256>>), h.Protocol), h.InfoHash), h.PeerId)

\* (h *HandshakeMessage) getBytes()
getBytes(h) ==
    Cat(Cat(Cat(Cat(Lit(<<h.Length % 256>>), h.Protocol), Run(0, 8)), h.InfoHash), h.PeerId)

HexDigits == <<"0", "1", "2", "3", "4", "5", "6", "7", "8", "9", "a", "b", "c", "d", "e", "f">>

\* fmt.Sprintf("%x", bytes): two hexadecimal digits per byte
RECURSIVE Hex(_)
Hex(bytes) ==
    IF Len(bytes) = 0 THEN <<>>
    ELSE <<HexDigits[(bytes[1].b \div 16) + 1], HexDigits[(bytes[1].b % 16) + 1]>>
         \o Hex(DropB(bytes, 1))

\* bytes[a:b]
Slice(bytes, a, b) == TakeB(DropB(bytes, a), b - a)

\* the 68-byte buffer, zeroed by make, after conn.Read returned k
HandshakeBuf(s, k) == Cat(TakeB(s, k), Run(0, 68 - k))

\* the HandshakeMessage performHandshake builds from the buffer; the slice
\* buff[1+protocolLength : 48] needs 1 + protocolLength <= 48
ParseHandshake(buff) ==
    LET protocolLength == ByteAt(buff, 0)
    IN  IF 1 + protocolLength > 48 THEN <<>>
        ELSE <<[Length |-> protocolLength,
                Protocol |-> Slice(buff, 1, 1 + protocolLength),
                InfoHash |-> Hex(Slice(buff, 1 + protocolLength, 48)),
                PeerId |-> Hex(Slice(buff, 48, 68))]>>

\* the peer id of the remote peer
RemotePeerId == Cat(Run(45, 4), Run(65, 16))

\* what a peer may answer to the handshake: the 68 bytes with the info hash
\* echoed or with another one, or a name length byte of 60
HandshakeReplies(infoHash) ==
    LET reply(len, hash) ==
            Cat(Cat(Cat(Cat(Lit(<<len>>), ProtocolName), Run(0, 8)), hash), RemotePeerId)
    IN  {reply(19, h) : h \in InfoHashes} \cup {reply(60, infoHash)}

\* what a peer may send after the handshake for piece idx: the piece in
\* order, with the last block corrupted, without the last block, in reverse
DownloadScripts(flen, plen, idx) ==
    LET len == TruePieceLen(flen, plen, idx)
        nb == CeilDiv(len, BLOCK_SIZE)
        blen(j) == Min(BLOCK_SIZE, len - j * BLOCK_SIZE)
        Blk(j) == PieceMsg(idx, j * BLOCK_SIZE, BlockBytes(idx, j, blen(j)))
        Honest == [k \in 1..nb |-> Blk(k - 1)]
        Corrupt == [k \in 1..nb |->
                      IF k < nb THEN Blk(k - 1)
                      ELSE PieceMsg(idx, (nb - 1) * BLOCK_SIZE, Run(99, blen(nb - 1)))]
    IN  {<<BitfieldMsg, UnchokeMsg>> \o c :
            c \in {Honest, Corrupt, SubSeq(Honest, 1, nb - 1),
                   [k \in 1..nb |-> Blk(nb - k)]}}

InitDownload ==
    /\ torrent \in Torrents
    /\ \E h \in InfoHashes : handshakeMessage = NewHandshakeMessage(h)
    /\ cmd = "loop"
    /\ pieceIndex = 0
    /\ file = <<>>
    /\ conns = 0
    /\ hs = HsNone
    /\ index = 0
    /\ stream = <<>>
    /\ marks = {0}
    /\ pos = 0
    /\ pc = "idle"
    /\ msgLen = 0
    /\ log = <<>>
    /\ pieceLength = 0
    /\ blockCnt = 0
    /\ i = 0
    /\ data = <<>>
    /\ result = <<>>
    /\ failure = ""
    /\ FnIdle

\* pieceIndex < numPieces; net.Dial: the peer's stream of the new connection
\* is its handshake reply and its messages, or a reply cut after 10 bytes
Dial ==
    /\ cmd = "loop"
    /\ pieceIndex < Len(torrent.pieces)
    /\ \/ /\ \E reply \in HandshakeReplies(handshakeMessage.InfoHash),
                script \in DownloadScripts(torrent.length, torrent.pieceLength, pieceIndex) :
                \/ /\ stream' = Cat(reply, Wire(script))
                   /\ marks' = {0} \cup {68 + o : o \in Boundaries(script)}
                \/ /\ stream' = TakeB(reply, 10)
                   /\ marks' = {0}
          /\ conns' = conns + 1
          /\ cmd' = "handshake"
       \/ /\ cmd' = "panic"
          /\ UNCHANGED <<stream, marks, conns>>
    /\ pos' = 0
    /\ hs' = HsNone
    /\ UNCHANGED <<torrent, index, pc, msgLen, log, pieceLength, blockCnt, i, data,
                   result, failure, pieceIndex, file, handshakeMessage, input, output>>

\* the loop ends after the last piece
Finish ==
    /\ cmd = "loop"
    /\ pieceIndex >= Len(torrent.pieces)
    /\ cmd' = "done"
    /\ UNCHANGED <<dpvars, pieceIndex, file, conns, handshakeMessage, hs, fnvars>>

\* performHandshake: conn.Write(handshakeMessage)
HandshakeWrite ==
    /\ cmd = "handshake"
    /\ \/ /\ hs' = [hs EXCEPT !.written = getBytes(handshakeMessage)]
          /\ cmd' = "handshakeRead"
       \/ /\ cmd' = "panic"
          /\ UNCHANGED hs
    /\ UNCHANGED <<dpvars, pieceIndex, file, conns, handshakeMessage, fnvars>>

\* performHandshake that fails when the info hash of the response is not the
\* one sent
HandshakeRead_CheckInfoHash ==
    /\ cmd = "handshakeRead"
    /\ IF BytesLen(stream) = 0
       THEN /\ cmd' = "panic"
            /\ UNCHANGED <<stream, pos, hs, pc, index>>
       ELSE \E k \in ReadCounts(68, BytesLen(stream)) :
               LET response == ParseHandshake(HandshakeBuf(stream, k))
               IN  /\ stream' = DropB(stream, k)
                   /\ pos' = pos + k
                   /\ IF response # <<>> /\ response[1].InfoHash = Hex(handshakeMessage.InfoHash)
                      THEN /\ hs' = [hs EXCEPT !.n = k, !.response = response]
                           /\ cmd' = "piece"
                           /\ pc' = "bitfieldLen"
                           /\ index' = pieceIndex
                      ELSE /\ hs' = [hs EXCEPT !.n = k]
                           /\ cmd' = "panic"
                           /\ UNCHANGED <<pc, index>>
    /\ msgLen' = 0
    /\ log' = <<>>
    /\ pieceLength' = 0
    /\ blockCnt' = 0
    /\ i' = 0
    /\ data' = <<>>
    /\ result' = <<>>
    /\ failure' = ""
    /\ UNCHANGED <<torrent, marks, pieceIndex, file, conns, handshakeMessage, fnvars>>

\* performHandshake: one conn.Read into a buffer of 68 bytes and the parse of
\* the buffer; then downloadPiece is entered for pieceIndex
HandshakeRead ==
    /\ cmd = "handshakeRead"
    /\ IF BytesLen(stream) = 0
       THEN /\ cmd' = "panic"
            /\ UNCHANGED <<stream, pos, hs, pc, index>>
       ELSE \E k \in ReadCounts(68, BytesLen(stream)) :
               LET response == ParseHandshake(HandshakeBuf(stream, k))
               IN  /\ stream' = DropB(stream, k)
                   /\ pos' = pos + k
                   /\ IF response # <<>>
                      THEN /\ hs' = [hs EXCEPT !.n = k, !.response = response]
                           /\ cmd' = "piece"
                           /\ pc' = "bitfieldLen"
                           /\ index' = pieceIndex
                      ELSE /\ hs' = [hs EXCEPT !.n = k]
                           /\ cmd' = "panic"
                           /\ UNCHANGED <<pc, index>>
    /\ msgLen' = 0
    /\ log' = <<>>
    /\ pieceLength' = 0
    /\ blockCnt' = 0
    /\ i' = 0
    /\ data' = <<>>
    /\ result' = <<>>
    /\ failure' = ""
    /\ UNCHANGED <<torrent, marks, pieceIndex, file, conns, handshakeMessage, fnvars>>

\* one step of downloadPiece
PieceStep ==
    /\ cmd = "piece"
    /\ \/ AwaitBitfieldLength
       \/ AwaitBitfieldId
       \/ SendInterested
       \/ AwaitUnchokeLength
       \/ AwaitUnchokeId
       \/ ComputeBlocks
       \/ SendRequest
       \/ AwaitPieceLength
       \/ AwaitPiecePayload
       \/ VerifyPiece
       \/ ConnError
    /\ UNCHANGED <<outer, fnvars>>

\* a failure of downloadPiece answered by closing the connection and going
\* back to the head of the loop for the same piece
PiecePanic_Retry ==
    /\ cmd = "piece"
    /\ pc = "failed"
    /\ cmd' = "loop"
    /\ conns' = conns - 1
    /\ UNCHANGED <<dpvars, pieceIndex, file, handshakeMessage, hs, fnvars>>

\* a panic of downloadPiece ends the process
PiecePanic ==
    /\ cmd = "piece"
    /\ pc = "failed"
    /\ cmd' = "panic"
    /\ UNCHANGED <<dpvars, pieceIndex, file, conns, handshakeMessage, hs, fnvars>>

\* the write of whatever downloadPiece assembled, verified or not
WritePiece_Unverified ==
    /\ cmd = "piece"
    /\ pc \in {"returned", "failed"}
    /\ file' = Append(file, data)
    /\ cmd' = "close"
    /\ UNCHANGED <<dpvars, pieceIndex, conns, handshakeMessage, hs, fnvars>>

\* file.Write(downloadedPiece)
WritePiece ==
    /\ cmd = "piece"
    /\ pc = "returned"
    /\ file' = Append(file, result[1])
    /\ cmd' = "close"
    /\ UNCHANGED <<dpvars, pieceIndex, conns, handshakeMessage, hs, fnvars>>

\* pieceIndex++ with the connection left open
CloseConn_KeepOpen ==
    /\ cmd = "close"
    /\ pieceIndex' = pieceIndex + 1
    /\ stream' = <<>>
    /\ cmd' = "loop"
    /\ UNCHANGED <<torrent, index, pos, marks, pc, msgLen, log, pieceLength, blockCnt,
                   i, data, result, failure, file, conns, handshakeMessage, hs, fnvars>>

\* conn.Close() and pieceIndex++
CloseConn ==
    /\ cmd = "close"
    /\ conns' = conns - 1
    /\ pieceIndex' = pieceIndex + 1
    /\ stream' = <<>>
    /\ cmd' = "loop"
    /\ UNCHANGED <<torrent, index, pos, marks, pc, msgLen, log, pieceLength, blockCnt,
                   i, data, result, failure, file, handshakeMessage, hs, fnvars>>

NextDownload ==
    \/ Dial
    \/ Finish
    \/ HandshakeWrite
    \/ HandshakeRead
    \/ PieceStep
    \/ PiecePanic
    \/ WritePiece
    \/ CloseConn

SpecDownload == InitDownload /\ [][NextDownload]_vars

\* ------------------------------------------------------------------------
\* Studies of single functions: the rest of the program is at rest
\* ------------------------------------------------------------------------
DpIdle ==
    /\ torrent = TorrentInfo(4, 4)
    /\ index = 0
    /\ stream = <<>>
    /\ pos = 0
    /\ marks = {0}
    /\ pc = "idle"
    /\ msgLen = 0
    /\ log = <<>>
    /\ pieceLength = 0
    /\ blockCnt = 0
    /\ i = 0
    /\ data = <<>>
    /\ result = <<>>
    /\ failure = ""

\* ------------------------------------------------------------------------
\* parsePeers
\* ------------------------------------------------------------------------
\* the "peers" strings of tracker responses: n bytes a, a + d, a + 2d, ...
PeerBuffers ==
    {[k \in 1..n |-> (a + (k - 1) * d) % 256] :
        n \in 0..MaxPeerBytes, a \in {0, 10, 192}, d \in {1, 37}}

\* parsePeers without the length check: a trailing partial group is dropped
parsePeers_Truncating(peers) ==
    [err |-> FALSE,
     peers |-> [j \in 1..(Len(peers) \div 6) |->
                  [IP |-> SubSeq(peers, 6 * j - 5, 6 * j - 2),
                   Port |-> peers[6 * j - 1] * 256 + peers[6 * j]]]]

\* parsePeers: an error for a length that is not a multiple of peerSize,
\* else one Peer per 6 bytes, the port read big-endian
parsePeers(peers) ==
    IF Len(peers) % 6 # 0
    THEN [err |-> TRUE, peers |-> <<>>]
    ELSE [err |-> FALSE,
          peers |-> [j \in 1..(Len(peers) \div 6) |->
                       [IP |-> SubSeq(peers, 6 * j - 5, 6 * j - 2),
                        Port |-> peers[6 * j - 1] * 256 + peers[6 * j]]]]

InitPeers ==
    /\ input \in PeerBuffers
    /\ output = <<>>
    /\ OuterIdle
    /\ DpIdle

\* peers, err := parsePeers(...)
ParsePeersCall ==
    /\ output = <<>>
    /\ output' = <<parsePeers(input)>>
    /\ UNCHANGED <<dpvars, outer, input>>

NextPeers == ParsePeersCall

SpecPeers == InitPeers /\ [][NextPeers]_vars

\* ------------------------------------------------------------------------
\* Bencode decoding.  A text is a sequence of one-character strings; an
\* offset counts from 0 as in the program, so s[k + 1] is the program's s[k].
\* ------------------------------------------------------------------------
Digits == <<"0", "1", "2", "3", "4", "5", "6", "7", "8", "9">>

\* bencodedString[i] >= '0' && bencodedString[i] <= '9', unicode.IsDigit
IsDigitChar(c) == \E d \in 1..10 : Digits[d] = c

\* int(bencodedString[i]) - '0'
DigitValue(c) == (CHOOSE d \in 1..10 : Digits[d] = c) - 1

\* decoded values: string, int, []interface{}, map[string]interface{}, nil
StrVal(v) == [t |-> "string", s |-> v]
IntVal(v) == [t |-> "int", n |-> v]
ListVal(v) == [t |-> "list", l |-> v]
DictVal(v) == [t |-> "dict", d |-> v]
NilVal == [t |-> "nil"]

\* the three outcomes of a decoding function: (value, i, nil), (value, i, err)
\* and a run-time panic
Ok(val, next) == [st |-> "ok", val |-> val, i |-> next]
Err(val, at) == [st |-> "err", val |-> val, i |-> at]
Panicked == [st |-> "panic", val |-> NilVal, i |-> 0]

\* make(map[string]interface{})
EmptyDict == [k \in {} |-> NilVal]

\* m[k] = val that keeps the value a key already has
DictPut_KeepFirst(m, k, val) ==
    [x \in (DOMAIN m) \cup {k} |-> IF x \in DOMAIN m THEN m[x] ELSE val]

\* m[k] = val
DictPut(m, k, val) ==
    [x \in (DOMAIN m) \cup {k} |-> IF x = k THEN val ELSE m[x]]

\* the loop over decimal digits from offset k: <<offset after, number read>>
RECURSIVE ScanDigits(_, _, _)
ScanDigits(s, k, acc) ==
    IF k < Len(s) /\ IsDigitChar(s[k + 1])
    THEN ScanDigits(s, k + 1, acc * 10 + DigitValue(s[k + 1]))
    ELSE <<k, acc>>

\* decodeString that returns the offset of the last byte of the string
decodeString_OffsetShort(s, st) ==
    LET scan == ScanDigits(s, st, 0)
        k == scan[1]
        lengthStr == scan[2]
    IN  IF k = Len(s) \/ s[k + 1] # ":" THEN Err(StrVal(<<>>), st)
        ELSE IF k + 1 + lengthStr > Len(s) THEN Err(StrVal(<<>>), st)
        ELSE Ok(StrVal(SubSeq(s, k + 2, k + 1 + lengthStr)), k + lengthStr)

\* decodeString without the test of the length against the end of the text
decodeString_NoBoundsTest(s, st) ==
    LET scan == ScanDigits(s, st, 0)
        k == scan[1]
        lengthStr == scan[2]
    IN  IF k = Len(s) \/ s[k + 1] # ":" THEN Err(StrVal(<<>>), st)
        ELSE Ok(StrVal(SubSeq(s, k + 2, Min(k + 1 + lengthStr, Len(s)))), k + 1 + lengthStr)

decodeString(s, st) ==
    LET scan == ScanDigits(s, st, 0)
        k == scan[1]
        lengthStr == scan[2]
    IN  IF k = Len(s) \/ s[k + 1] # ":" THEN Err(StrVal(<<>>), st)
        ELSE IF k + 1 + lengthStr > Len(s) THEN Err(StrVal(<<>>), st)
        ELSE Ok(StrVal(SubSeq(s, k + 2, k + 1 + lengthStr)), k + 1 + lengthStr)

\* decodeNumber that forgets the sign
decodeNumber_NoNegate(s, st) ==
    IF Len(s) = st + 1 THEN Err(IntVal(0), st)
    ELSE LET isNegative == s[st + 2] = "-"
             scan == ScanDigits(s, IF isNegative THEN st + 2 ELSE st + 1, 0)
         IN  IF scan[1] = Len(s) \/ s[scan[1] + 1] # "e" THEN Err(IntVal(0), st)
             ELSE Ok(IntVal(scan[2]), scan[1] + 1)

decodeNumber(s, st) ==
    IF Len(s) = st + 1 THEN Err(IntVal(0), st)
    ELSE LET isNegative == s[st + 2] = "-"
             scan == ScanDigits(s, IF isNegative THEN st + 2 ELSE st + 1, 0)
         IN  IF scan[1] = Len(s) \/ s[scan[1] + 1] # "e" THEN Err(IntVal(0), st)
             ELSE Ok(IntVal(IF isNegative THEN (-1) * scan[2] ELSE scan[2]), scan[1] + 1)

RECURSIVE decodeBencode(_, _)
RECURSIVE ListLoop(_, _, _, _)
RECURSIVE DictLoop(_, _, _, _)

\* the for loop of decodeList, at offset k with list decoded so far
ListLoop(s, st, list, k) ==
    IF k >= Len(s) THEN Err(NilVal, st)
    ELSE IF s[k + 1] = "e" THEN Ok(ListVal(list), k + 1)
    ELSE LET li == decodeBencode(s, k)
         IN  IF li.st = "panic" THEN Panicked
             ELSE IF li.st = "err" THEN Err(NilVal, li.i)
             ELSE ListLoop(s, st, Append(list, li.val), li.i)

\* the for loop of decodeDict, at offset k with m decoded so far; the value
\* is decoded at the offset after the key without a test against len
DictLoop(s, st, m, k) ==
    IF k >= Len(s) THEN Err(NilVal, st)
    ELSE IF s[k + 1] = "e" THEN Ok(DictVal(m), k + 1)
    ELSE LET key == decodeBencode(s, k)
         IN  IF key.st = "panic" THEN Panicked
             ELSE IF key.st = "err" THEN Err(NilVal, k)
             ELSE IF key.val.t # "string" THEN Err(NilVal, k)
             ELSE LET val == decodeBencode(s, key.i)
                  IN  IF val.st = "panic" THEN Panicked
                      ELSE IF val.st = "err" THEN Err(NilVal, val.i)
                      ELSE DictLoop(s, st, DictPut(m, key.val.s, val.val), val.i)

decodeList(s, st) == ListLoop(s, st, <<>>, st + 1)

decodeDict(s, st) == DictLoop(s, st, EmptyDict, st + 1)

\* bencodedString[st] is read without a test against len
decodeBencode(s, st) ==
    IF st >= Len(s) THEN Panicked
    ELSE IF s[st + 1] = "d" THEN decodeDict(s, st)
    ELSE IF s[st + 1] = "l" THEN decodeList(s, st)
    ELSE IF IsDigitChar(s[st + 1]) THEN decodeString(s, st)
    ELSE IF s[st + 1] = "i" THEN decodeNumber(s, st)
    ELSE Err(StrVal(<<>>), st)

\* ------------------------------------------------------------------------
\* Bencoded texts to decode
\* ------------------------------------------------------------------------
\* strconv.Itoa for n >= 0
RECURSIVE Decimal(_)
Decimal(n) ==
    IF n < 10 THEN <<Digits[n + 1]>> ELSE Decimal(n \div 10) \o <<Digits[(n % 10) + 1]>>

SignedDecimal(n) == IF n < 0 THEN <<"-">> \o Decimal(0 - n) ELSE Decimal(n)

\* the text of a value; the pairs of a dictionary are written as a sequence
\* of <<key, value>>, in the order and with the repetitions of the text
EncInt(n) == <<"i">> \o SignedDecimal(n) \o <<"e">>

EncStr(str) == Decimal(Len(str)) \o <<":">> \o str

RECURSIVE Encode(_)
RECURSIVE EncodeAll(_)
EncodeAll(vs) == IF Len(vs) = 0 THEN <<>> ELSE Encode(vs[1]) \o EncodeAll(Tail(vs))

Encode(v) ==
    IF v.t = "int" THEN EncInt(v.n)
    ELSE IF v.t = "string" THEN EncStr(v.s)
    ELSE <<"l">> \o EncodeAll(v.l) \o <<"e">>

RECURSIVE EncodePairs(_)
EncodePairs(pairs) ==
    IF Len(pairs) = 0 THEN <<>>
    ELSE EncStr(pairs[1][1]) \o Encode(pairs[1][2]) \o EncodePairs(Tail(pairs))

EncDict(pairs) == <<"d">> \o EncodePairs(pairs) \o <<"e">>

\* all sequences of at most n elements of S
SeqsUpTo(S, n) == UNION {[1..k -> S] : k \in 0..n}

ByteStrings == SeqsUpTo({"a", ":", "e", "1"}, MaxStrLen)

\* byte strings whose length has two decimal digits
LongStrings ==
    {[k \in 1..n |-> IF k % 2 = 1 THEN p[1] ELSE p[2]] :
        n \in {10, 12}, p \in {<<"1", "a">>, <<"e", ":">>, <<":", "1">>}}

Atoms ==
    {IntVal(0 - 1), IntVal(0), IntVal(7), StrVal(<<>>), StrVal(<<"a">>),
     ListVal(<<>>), ListVal(<<IntVal(3)>>)}

Lists == {ListVal(l) : l \in SeqsUpTo(Atoms, 2)}

\* dictionaries of up to two pairs, and of three with the first key repeated
PairLists ==
    SeqsUpTo({<<"a">>, <<"b">>} \X Atoms, 2)
    \cup {<<<<<<"a">>, u>>, <<<<"b">>, v>>, <<<<"a">>, w>>>> :
             u \in {IntVal(0), StrVal(<<"a">>)}, v \in {IntVal(7)},
             w \in {IntVal(0), IntVal(7), ListVal(<<>>)}}

WellFormedTexts ==
    {EncInt(n) : n \in (0 - MaxInt)..MaxInt}
    \cup {EncStr(str) : str \in ByteStrings \cup LongStrings}
    \cup {Encode(l) : l \in Lists}
    \cup {EncDict(p) : p \in PairLists}

\* texts cut off before their end
CutTexts ==
    LET whole == {EncInt(0 - 12), EncStr(<<"a", "e">>)}
                 \cup {Encode(ListVal(l)) : l \in SeqsUpTo(Atoms, 1)}
                 \cup {EncDict(p) : p \in SeqsUpTo({<<"a">>} \X Atoms, 1)}
                 \cup {EncDict(<<<<<<"a">>, IntVal(7)>>, <<<<"b">>, StrVal(<<"a">>)>>>>)}
    IN  UNION {{SubSeq(w, 1, k) : k \in 0..(Len(w) - 1)} : w \in whole}

\* texts that are no values
OtherTexts ==
    {<<"x">>, <<"e">>, <<"-", "1">>, <<"i", "e">>, <<"i", "-", "e">>, <<"i", "-", "0", "e">>,
     <<"i", "1", "e", "x">>, <<"d", "i", "1", "e", "i", "2", "e", "e">>,
     <<"l", "x", "e">>, <<"5", ":", "a">>, <<"1", "a">>}

BencodeTexts == WellFormedTexts \cup CutTexts \cup OtherTexts

InitDecode ==
    /\ input \in BencodeTexts
    /\ output = <<>>
    /\ OuterIdle
    /\ DpIdle

\* decoded, _, err := decodeBencode(bencodedValue, 0)
DecodeCall ==
    /\ output = <<>>
    /\ output' = <<decodeBencode(input, 0)>>
    /\ UNCHANGED <<dpvars, outer, input>>

NextDecode == DecodeCall

SpecDecode == InitDecode /\ [][NextDecode]_vars

\* decodeBencode called at any offset inside the text, as decodeList and
\* decodeDict call it; the offset is kept beside the outcome
DecodeAtCall ==
    /\ output = <<>>
    /\ \E st \in 0..(Len(input) - 1) : output' = <<decodeBencode(input, st), st>>
    /\ UNCHANGED <<dpvars, outer, input>>

NextDecodeAt == DecodeAtCall

SpecDecodeAt == InitDecode /\ [][NextDecodeAt]_vars

\* ------------------------------------------------------------------------
\* parseTorrentFile
\* ------------------------------------------------------------------------
AsciiChars ==
    <<" ", "-", "/", "0", "1", "2", "3", "4", "5", "6", "7", "8", "9", ":",
      "a", "b", "c", "d", "e", "f", "g", "h", "i", "j", "k", "l", "m",
      "n", "o", "p", "q", "r", "s", "t", "u", "v", "w", "x", "y", "z">>

\* the byte of a character
CharCode(c) ==
    LET k == CHOOSE j \in 1..Len(AsciiChars) : AsciiChars[j] = c
    IN  IF k = 1 THEN 32 ELSE IF k = 2 THEN 45 ELSE IF k <= 14 THEN 44 + k ELSE 82 + k

\* []byte(text)
TextBytes(text) == Lit([k \in 1..Len(text) |-> CharCode(text[k])])

\* the keys parseTorrentFile reads
KeyAnnounce == <<"a", "n", "n", "o", "u", "n", "c", "e">>
KeyInfo == <<"i", "n", "f", "o">>
KeyLength == <<"l", "e", "n", "g", "t", "h">>
KeyPieceLength == <<"p", "i", "e", "c", "e", " ", "l", "e", "n", "g", "t", "h">>
KeyPieces == <<"p", "i", "e", "c", "e", "s">>

\* m[k] of a map[string]interface{}: nil for a missing key
Lookup(m, k) == IF k \in DOMAIN m THEN m[k] ELSE NilVal

\* byte-wise order of two keys, as bencode.Marshal sorts the keys of a map
RECURSIVE KeyLess(_, _)
KeyLess(a, b) ==
    IF Len(b) = 0 THEN FALSE
    ELSE IF Len(a) = 0 THEN TRUE
    ELSE IF CharCode(a[1]) # CharCode(b[1]) THEN CharCode(a[1]) < CharCode(b[1])
    ELSE KeyLess(Tail(a), Tail(b))

\* bencode.Marshal(h, info): the text of a decoded value, keys in order
RECURSIVE Marshal(_)
RECURSIVE MarshalAll(_)
RECURSIVE MarshalKeys(_, _)
MarshalAll(vs) == IF Len(vs) = 0 THEN <<>> ELSE Marshal(vs[1]) \o MarshalAll(Tail(vs))

MarshalKeys(m, keys) ==
    IF keys = {} THEN <<>>
    ELSE LET k == CHOOSE x \in keys : \A y \in keys \ {x} : KeyLess(x, y)
         IN  EncStr(k) \o Marshal(m[k]) \o MarshalKeys(m, keys \ {k})

Marshal(v) ==
    IF v.t = "int" THEN EncInt(v.n)
    ELSE IF v.t = "string" THEN EncStr(v.s)
    ELSE IF v.t = "list" THEN <<"l">> \o MarshalAll(v.l) \o <<"e">>
    ELSE <<"d">> \o MarshalKeys(v.d, DOMAIN v.d) \o <<"e">>

\* the sum of p * CharCode(text[p]) over lo..hi modulo 251, by halves
RECURSIVE TextSum(_, _, _)
TextSum(text, lo, hi) ==
    IF lo > hi THEN 0
    ELSE IF lo = hi THEN ((lo % 251) * CharCode(text[lo])) % 251
    ELSE (TextSum(text, lo, (lo + hi) \div 2) + TextSum(text, ((lo + hi) \div 2) + 1, hi)) % 251

\* fmt.Sprintf("%x", h.Sum(nil)) after the text was written to h: the value
\* of Sha1Sum on the bytes of the text
Sha1Text(text) == TextSum(text, 1, Len(text))

\* what a function returns to its caller
Returned(val) == [st |-> "ok", val |-> val]
ReturnedError == [st |-> "err", val |-> NilVal]

getPieces(pieceI) ==
    IF pieceI.t # "string" THEN ReturnedError
    ELSE IF Len(pieceI.s) % 20 # 0 THEN ReturnedError
    ELSE Returned([j \in 1..(Len(pieceI.s) \div 20) |->
                      Hex(TextBytes(SubSeq(pieceI.s, 20 * (j - 1) + 1, 20 * j)))])

\* a decoding error and an error of getPieces end in panic(err), and so do
\* the type assertions on announce, length and piece length, which have no
\* second result; only a missing info dictionary is returned as an error
parseTorrentFile(fileData) ==
    LET decoded == decodeDict(fileData, 0)
    IN  IF decoded.st # "ok" THEN Panicked
        ELSE LET m == decoded.val.d
                 info == Lookup(m, KeyInfo)
             IN  IF info.t # "dict" THEN ReturnedError
                 ELSE LET pieces == getPieces(Lookup(info.d, KeyPieces))
                      IN  IF pieces.st = "err" THEN Panicked
                          ELSE IF Lookup(m, KeyAnnounce).t # "string" THEN Panicked
                          ELSE IF Lookup(info.d, KeyLength).t # "int" THEN Panicked
                          ELSE IF Lookup(info.d, KeyPieceLength).t # "int" THEN Panicked
                          ELSE Returned([trackerUrl |-> Lookup(m, KeyAnnounce).s,
                                         infoHash |-> Sha1Text(Marshal(info)),
                                         info |-> [length |-> Lookup(info.d, KeyLength).n,
                                                   pieceLength |-> Lookup(info.d, KeyPieceLength).n,
                                                   pieces |-> pieces.val]])

\* ------------------------------------------------------------------------
\* Torrent files to parse
\* ------------------------------------------------------------------------
\* n times the character c
Rep(c, n) == [k \in 1..n |-> c]

\* the announce pair: missing, a string, an integer
AnnounceParts ==
    {<<>>,
     EncStr(KeyAnnounce) \o EncStr(<<"h", "t", "t", "p", ":", "/", "/", "t">>),
     EncStr(KeyAnnounce) \o EncInt(5)}

\* the length pair and the piece length pair: missing, integers, a string
LengthParts ==
    {<<>>, EncStr(KeyLength) \o EncStr(<<"1", "0">>)}
    \cup {EncStr(KeyLength) \o EncInt(n) : n \in {0, 8, 10}}

PieceLengthParts ==
    {<<>>, EncStr(KeyPieceLength) \o EncStr(<<"4">>)}
    \cup {EncStr(KeyPieceLength) \o EncInt(n) : n \in {0, 4}}

\* the pieces pair: missing, an integer, digests of 20 bytes each, 19 bytes
PiecesParts ==
    {<<>>, EncStr(KeyPieces) \o EncInt(20), EncStr(KeyPieces) \o EncStr(Rep("a", 19))}
    \cup {EncStr(KeyPieces) \o EncStr(Rep("a", 20 * (k \div 2)) \o Rep("b", 20 * (k - (k \div 2)))) :
             k \in 0..MaxPieces}

\* the info pair: missing, a string, a dictionary
InfoParts ==
    {<<>>, EncStr(KeyInfo) \o EncStr(<<"x">>)}
    \cup {EncStr(KeyInfo) \o <<"d">> \o l \o q \o h \o <<"e">> :
             l \in LengthParts, q \in PieceLengthParts, h \in PiecesParts}

TorrentTexts ==
    {<<"d">> \o a \o inf \o <<"e">> : a \in AnnounceParts, inf \in InfoParts}
    \cup {<<>>, <<"d">>, <<"d">> \o EncStr(KeyInfo), <<"d">> \o EncStr(KeyInfo) \o <<"d", "e">>}

InitTorrent ==
    /\ input \in TorrentTexts
    /\ output = <<>>
    /\ OuterIdle
    /\ DpIdle

\* parsedTorrentFile, err := parseTorrentFile(data)
ParseTorrentCall ==
    /\ output = <<>>
    /\ output' = <<parseTorrentFile(input)>>
    /\ UNCHANGED <<dpvars, outer, input>>

NextTorrent == ParseTorrentCall

SpecTorrent == InitTorrent /\ [][NextTorrent]_vars

\* ------------------------------------------------------------------------
\* Properties
\* ------------------------------------------------------------------------
IsWrite(e, id) == e.op = "write" /\ e.id = id
IsRecv(e, id) == e.op = "recv" /\ e.id = id

\* the request messages written so far, in order
Requests == SelectSeq(log, LAMBDA e : IsWrite(e, REQUEST_MESSAGE_ID))

\* bytes s[k .. k+3] as a big-endian number
FieldAt(s, k) == U32([j \in 1..4 |-> ByteAt(s, k + j - 1)])

\* the unchoke was accepted and the piece and block counts are computed
Computed ==
    /\ Len(log) >= 3
    /\ IsRecv(log[3], UNCHOKE_MESSAGE_ID)
    /\ pc # "blocks"

\* C1: downloadPiece hands bytes to its caller only when their digest is the
\* expected digest pieces[index], and the bytes are then the whole assembled
\* data; in every other state, a failed download included, the caller has
\* received no bytes at all.
C1_ReturnsOnlyVerifiedPiece ==
    /\ pc = "returned" =>
          /\ Len(result) = 1
          /\ result[1] = data
          /\ Sha1Sum(result[1]) = torrent.pieces[index + 1]
    /\ pc # "returned" => result = <<>>
    /\ (pc \in {"returned", "failed"} /\ Computed /\ i = blockCnt
            /\ Sha1Sum(data) # torrent.pieces[index + 1])
          => pc = "failed" /\ result = <<>>

\* a piece whose blocks all arrived but whose digest is wrong was refused
C1_Witness ==
    /\ pc = "failed"
    /\ failure = "downloaded data hash doesn't match"
    /\ i = blockCnt
    /\ BytesLen(data) = pieceLength
    /\ pieceLength > BLOCK_SIZE
    /\ result = <<>>

\* C2: the interested message is written only after a bitfield was read, a
\* request only after bitfield, interested and unchoke in that order, and a
\* message with another id at the unchoke step ends the download with no
\* request written.
C2_StrictOrder ==
    /\ \A k \in 1..Len(log) :
          IsWrite(log[k], INTERESTED_MESSAGE_ID) =>
              k = 2 /\ IsRecv(log[1], BIT_FIELD_MESSAGE_ID)
    /\ \A k \in 1..Len(log) :
          IsWrite(log[k], REQUEST_MESSAGE_ID) =>
              /\ k >= 4
              /\ IsRecv(log[1], BIT_FIELD_MESSAGE_ID)
              /\ IsWrite(log[2], INTERESTED_MESSAGE_ID)
              /\ IsRecv(log[3], UNCHOKE_MESSAGE_ID)
    /\ (Len(log) >= 3 /\ ~IsRecv(log[3], UNCHOKE_MESSAGE_ID)) =>
          pc = "failed" /\ Len(log) = 3

\* a choke at the unchoke step ended the download
C2_Witness ==
    /\ Len(log) = 3
    /\ log[3].op = "recv"
    /\ log[3].id = 0
    /\ pc = "failed"
    /\ failure = "expected unchoke message"

\* C3: when the first message read is not a bitfield, downloadPiece has
\* failed and has written nothing on the connection.
C3_NoBitfieldNoWrite ==
    (Len(log) >= 1 /\ ~IsRecv(log[1], BIT_FIELD_MESSAGE_ID)) =>
        /\ pc = "failed"
        /\ failure = "expected bitfield message"
        /\ \A k \in 1..Len(log) : log[k].op # "write"

\* a piece message arrived at the bitfield step
C3_Witness ==
    /\ Len(log) = 1
    /\ IsRecv(log[1], PIECE_MESSAGE_ID)
    /\ pc = "failed"

\* C4: when the file length is not a multiple of the piece length, the
\* length downloadPiece uses is the piece length for every index but the
\* last, and the remainder for the last index.
C4_LastPieceRemainder ==
    (Computed /\ torrent.length % torrent.pieceLength # 0) =>
        pieceLength = IF index = Len(torrent.pieces) - 1
                      THEN torrent.length % torrent.pieceLength
                      ELSE torrent.pieceLength

\* piece length 4, total length 10: the last piece, index 2, has length 2
C4_Witness ==
    /\ Computed
    /\ torrent.length = 10
    /\ torrent.pieceLength = 4
    /\ index = 2
    /\ pieceLength = 2

\* C5: when the file length is an exact multiple of the piece length, the
\* length downloadPiece uses for the last piece index is the full piece
\* length.
C5_ExactMultipleFullPiece ==
    (Computed /\ torrent.length % torrent.pieceLength = 0
        /\ index = Len(torrent.pieces) - 1) =>
        pieceLength = torrent.pieceLength

\* the (index, offset, length) a request message names
RequestFields(e) ==
    <<FieldAt(e.bytes, 5), FieldAt(e.bytes, 9), FieldAt(e.bytes, 13)>>

RECURSIVE SumLengths(_)
SumLengths(reqs) ==
    IF Len(reqs) = 0 THEN 0 ELSE RequestFields(reqs[1])[3] + SumLengths(Tail(reqs))

\* the piece messages read in the block loop whose block was taken into data
PiecesRead ==
    {k \in 4..Len(log) : IsRecv(log[k], PIECE_MESSAGE_ID) /\ log[k].len >= 9}

\* the block loop ended with every block answered by a piece message
AllBlocksReceived ==
    /\ Computed
    /\ pc \in {"verify", "returned", "failed"}
    /\ Cardinality(PiecesRead) = CeilDiv(pieceLength, 16384)

\* C6: for a piece of effective length L > 0 the k-th request (from 0) names
\* (index, k * 16384, length) with every length 16384 except that of the
\* last block, which is L - (count - 1) * 16384 and lies in 1..16384; never
\* more than ceil(L / 16384) requests are written, and once every block was
\* answered by a piece message exactly that many were, their lengths
\* summing to L.
C6_BlockRequests ==
    (Computed /\ pieceLength > 0) =>
        LET count == CeilDiv(pieceLength, 16384)
        IN  /\ Len(Requests) <= count
            /\ \A k \in 1..Len(Requests) :
                  LET f == RequestFields(Requests[k])
                  IN  /\ Requests[k].len = 17
                      /\ FieldAt(Requests[k].bytes, 0) = 13
                      /\ f[1] = index
                      /\ f[2] = (k - 1) * 16384
                      /\ f[3] = IF k = count THEN pieceLength - (count - 1) * 16384
                                ELSE 16384
                      /\ f[3] \in 1..16384
            /\ AllBlocksReceived =>
                  Len(Requests) = count /\ SumLengths(Requests) = pieceLength

\* a piece of 16385 bytes was asked for in two requests, of 16384 and 1
C6_Witness ==
    /\ AllBlocksReceived
    /\ pieceLength = 16385
    /\ Len(Requests) = 2
    /\ RequestFields(Requests[2]) = <<index, 16384, 1>>

\* C7: between any two requests written there is a piece message that was
\* read in full, and the requests written are never more than one ahead of
\* the piece messages read.
C7_OneRequestInFlight ==
    /\ \A a, b \in 1..Len(log) :
          (a < b /\ IsWrite(log[a], REQUEST_MESSAGE_ID)
                 /\ IsWrite(log[b], REQUEST_MESSAGE_ID)) =>
              \E c \in (a + 1)..(b - 1) :
                  /\ IsRecv(log[c], PIECE_MESSAGE_ID)
                  /\ BytesLen(log[c].bytes) = log[c].len
    /\ Len(Requests) - Cardinality(PiecesRead) \in {0, 1}

\* the second request was written after the first piece message was read
C7_Witness ==
    /\ Len(Requests) = 2
    /\ Len(log) = 6
    /\ IsRecv(log[5], PIECE_MESSAGE_ID)
    /\ IsWrite(log[6], REQUEST_MESSAGE_ID)

\* the message of log entry e is a whole message of the peer's stream
PeerMessage(e) == e.end \in marks /\ (e.end - 4 - e.len) \in marks

\* C8: the block of every piece message of the peer taken into data lies in
\* data at the byte offset the message carries.
C8_BlockAtReportedOffset ==
    \A k \in PiecesRead :
        PeerMessage(log[k]) =>
            LET off == FieldAt(log[k].bytes, 5)
                block == DropB(log[k].bytes, 9)
            IN  TakeB(DropB(data, off), BytesLen(block)) = block

\* the message just read in full was a keep-alive: four bytes, length 0
KeepAliveRead == msgLen = 0 /\ pos \in marks /\ (pos - 4) \in marks

\* C9: a keep-alive read at an await step never makes the download fail.
C9_KeepAliveTolerated == pc = "failed" => ~KeepAliveRead

\* C10: every length prefix is read starting at a message boundary of the
\* peer's stream.
C10_PrefixAtBoundary ==
    pc \in {"bitfieldLen", "unchokeLen", "pieceLen"} => pos \in marks

\* C11: when the stream is at its end while downloadPiece awaits the piece
\* message of a block it has requested, the next step is the failure of the
\* download, with no bytes returned: the block loop is not left as if the
\* piece were complete.
C11_EofNotCompletion ==
    [][(pc = "pieceLen" /\ BytesLen(stream) = 0)
          => (pc' = "failed" /\ failure' \in {"EOF", "connection error"} /\ result' = <<>>)]_vars

\* C12: the download command takes the piece indices in increasing order and
\* the output file holds, in every state, exactly the pieces 0..k-1, each
\* with the digest the torrent gives for its index; k is the index the loop
\* is at, or one more between the write and the close.
C12_SinkIsVerifiedPrefix ==
    cmd # "idle" =>
        /\ Len(file) <= Len(torrent.pieces)
        /\ \A j \in 1..Len(file) : Sha1Sum(file[j]) = torrent.pieces[j]
        /\ Len(file) = IF cmd = "close" THEN pieceIndex + 1 ELSE pieceIndex
        /\ cmd = "piece" => index = pieceIndex

\* the download failed part-way, after two pieces were written
C12_Witness ==
    /\ cmd = "panic"
    /\ pc = "failed"
    /\ Len(file) = 2
    /\ pieceIndex = 2

\* C13: performHandshake has a response only after conn.Read has filled all
\* 68 bytes of the buffer.
C13_HandshakeNeedsAllBytes == hs.response # <<>> => hs.n = 68

\* C14: the handshake message written is 68 bytes: the byte 19, the 19 bytes
\* of the protocol name, 8 zero bytes, the 20 bytes of the info hash and the
\* 20 bytes of the peer id; and no byte of the connection is read before it
\* is written.
C14_HandshakeLayout ==
    /\ hs.written # <<>> =>
          /\ BytesLen(hs.written) = 68
          /\ ByteAt(hs.written, 0) = 19
          /\ ByteAt(hs.written, 1) = 66
          /\ ByteAt(hs.written, 19) = 108
          /\ Slice(hs.written, 1, 20) = ProtocolName
          /\ Slice(hs.written, 20, 28) = Run(0, 8)
          /\ Slice(hs.written, 28, 48) = handshakeMessage.InfoHash
          /\ Slice(hs.written, 48, 68) = handshakeMessage.PeerId
    /\ (cmd \in {"handshake", "handshakeRead", "piece"} /\ pos > 0) => hs.written # <<>>
    /\ cmd = "handshake" => pos = 0

\* the handshake message is written and nothing is read yet
C14_Witness ==
    /\ cmd = "handshakeRead"
    /\ BytesLen(hs.written) = 68
    /\ pos = 0

\* C15: parsePeers gives an error and no endpoint for a buffer whose length
\* is not a multiple of 6; for a buffer of 6k bytes it gives k endpoints in
\* input order, the j-th with bytes 6j..6j+3 as address and bytes 6j+4 and
\* 6j+5 as big-endian port.
C15_ParsePeers ==
    output # <<>> =>
        LET r == output[1]
            n == Len(input)
        IN  /\ n % 6 # 0 => r.err /\ r.peers = <<>>
            /\ n % 6 = 0 =>
                  /\ ~r.err
                  /\ Len(r.peers) * 6 = n
                  /\ \A j \in 0..(Len(r.peers) - 1) :
                        /\ r.peers[j + 1].IP = <<input[6 * j + 1], input[6 * j + 2],
                                                 input[6 * j + 3], input[6 * j + 4]>>
                        /\ r.peers[j + 1].Port = 256 * input[6 * j + 5] + input[6 * j + 6]

\* a buffer of 12 bytes gave 2 endpoints, the first one 10.11.12.13:3599
C15_Witness ==
    /\ output # <<>>
    /\ Len(input) = 12
    /\ ~output[1].err
    /\ Len(output[1].peers) = 2
    /\ output[1].peers[1] = [IP |-> <<10, 11, 12, 13>>, Port |-> 3599]

\* C16: decoding any text from offset 0 ends with a value and the next offset
\* or with an error returned to the caller, never with a crash of the program
C16_DecodeNeverCrashes ==
    output # <<>> => output[1].st \in {"ok", "err"}

\* the file decodes to a dictionary that lacks the announce string or the
\* info dictionary
LacksField(text) ==
    LET decoded == decodeDict(text, 0)
    IN  /\ decoded.st = "ok"
        /\ \/ Lookup(decoded.val.d, KeyAnnounce).t # "string"
           \/ Lookup(decoded.val.d, KeyInfo).t # "dict"

\* C17: when the decoded outer dictionary lacks the announce string or the
\* info dictionary, parseTorrentFile returns an error to its caller
C17_MissingFieldReturned ==
    (output # <<>> /\ LacksField(input)) => output[1].st = "err"

\* C18: every metadata value parseTorrentFile returns has a positive piece
\* length and as many piece digests as ceil(length / pieceLength)
C18_DigestCount ==
    (output # <<>> /\ output[1].st = "ok") =>
        LET info == output[1].val.info
        IN  /\ info.pieceLength > 0
            /\ Len(info.pieces) * info.pieceLength >= info.length
            /\ (Len(info.pieces) - 1) * info.pieceLength < info.length

\* the last pair of a pair list that has key k
LastValue(pairs, k) ==
    LET at == CHOOSE j \in 1..Len(pairs) :
                  /\ pairs[j][1] = k
                  /\ \A h \in (j + 1)..Len(pairs) : pairs[h][1] # k
    IN  pairs[at][2]

\* C19: decoding the text of a dictionary succeeds, also when a key is
\* repeated, and the result maps every key to the value of its last
\* occurrence in the text
C19_LastWriteWins ==
    \A pairs \in PairLists :
        (output # <<>> /\ input = EncDict(pairs)) =>
            /\ output[1].st = "ok"
            /\ output[1].i = Len(input)
            /\ output[1].val.t = "dict"
            /\ DOMAIN output[1].val.d = {pairs[j][1] : j \in 1..Len(pairs)}
            /\ \A k \in DOMAIN output[1].val.d : output[1].val.d[k] = LastValue(pairs, k)

C19_Witness ==
    /\ output # <<>>
    /\ input = EncDict(<<<<<<"a">>, IntVal(0)>>, <<<<"b">>, IntVal(7)>>, <<<<"a">>, ListVal(<<>>)>>>>)
    /\ output[1].st = "ok"
    /\ output[1].val.d[<<"a">>] = ListVal(<<>>)
    /\ output[1].val.d[<<"b">>] = IntVal(7)

\* C20: for every integer n of the range, negative ones and 0 included,
\* decoding "i" + decimal(n) + "e" from offset 0 succeeds with value n and
\* with the length of the text as next offset
C20_IntegerRoundTrip ==
    \A n \in (0 - MaxInt)..MaxInt :
        (output # <<>> /\ input = EncInt(n)) => output[1] = Ok(IntVal(n), Len(input))

C20_Witness ==
    /\ output # <<>>
    /\ input = <<"i", "-", "1", "2", "e">>
    /\ output[1] = Ok(IntVal(0 - 12), 5)

\* C21: for every byte string s, the empty one and those with ':', 'e' or
\* digits included, decoding decimal(len(s)) + ":" + s from offset 0 yields
\* s, with the length of the text as next offset
C21_StringRoundTrip ==
    \A str \in ByteStrings \cup LongStrings :
        (output # <<>> /\ input = EncStr(str)) => output[1] = Ok(StrVal(str), Len(input))

C21_Witness ==
    /\ output # <<>>
    /\ input = <<"1", "2", ":">> \o [k \in 1..12 |-> IF k % 2 = 1 THEN ":" ELSE "1"]
    /\ output[1] = Ok(StrVal([k \in 1..12 |-> IF k % 2 = 1 THEN ":" ELSE "1"]), 15)

\* C22: the download command has one connection per piece: no connection is
\* open at the head of the loop, exactly one from the dial to the close, never
\* more than one, and downloadPiece runs for pieceIndex only after
\* performHandshake wrote the handshake and returned a response
C22_OneConnectionPerPiece ==
    /\ conns \in {0, 1}
    /\ cmd \in {"loop", "done"} => conns = 0
    /\ cmd \in {"handshake", "handshakeRead", "piece", "close"} => conns = 1
    /\ cmd = "piece" =>
          /\ BytesLen(hs.written) = 68
          /\ hs.response # <<>>
          /\ index = pieceIndex

C22_Witness ==
    /\ cmd = "piece"
    /\ pieceIndex = 1
    /\ conns = 1
    /\ Len(file) = 1
    /\ pc = "pieceLen"

\* a step of the download run has failed: the process panicked, or
\* downloadPiece is about to
Failed == cmd = "panic" \/ (cmd = "piece" /\ pc = "failed")

\* this step writes a request message
RequestSent == Len(log') = Len(log) + 1 /\ IsWrite(log'[Len(log')], REQUEST_MESSAGE_ID)

\* the request this step writes is for the piece asked for, at an offset no
\* request written before on the connection has
RequestIsNew ==
    /\ FieldAt(log'[Len(log')].bytes, 5) = index
    /\ \A k \in 1..Len(log) :
          IsWrite(log[k], REQUEST_MESSAGE_ID) =>
              FieldAt(log[k].bytes, 9) # FieldAt(log'[Len(log')].bytes, 9)

\* C23: there is no retry: pieceIndex never goes back, a connection is dialed
\* only for an index greater than every index tried before, no block request
\* is sent twice, and after a failure no connection is dialed, no message is
\* sent and nothing is written to the output file
C23_NoRetry ==
    [][/\ pieceIndex' >= pieceIndex
       /\ conns' > conns => (Len(file) = pieceIndex /\ (pc = "idle" \/ index < pieceIndex))
       /\ RequestSent => RequestIsNew
       /\ Failed => /\ Failed'
                    /\ conns' = conns
                    /\ file' = file
                    /\ log' = log
                    /\ hs' = hs
                    /\ pieceIndex' = pieceIndex]_vars

C23_Witness ==
    /\ cmd = "panic"
    /\ pc = "failed"
    /\ failure = "downloaded data hash doesn't match"
    /\ pieceIndex = 1
    /\ Len(file) = 1
    /\ Len(Requests) = MaxBlocks
    /\ conns = 1

\* C24: performHandshake does not compare the info hash of the response with
\* the one it sent: whenever conn.Read fills the 68 bytes and the name length
\* byte leaves room for the slices, the handshake returns a response and
\* downloadPiece is entered on the connection for pieceIndex
C24_InfoHashNotCompared ==
    [][(/\ cmd = "handshakeRead"
        /\ hs' # hs
        /\ hs'.n = 68
        /\ 1 + ByteAt(stream, 0) <= 48)
          => /\ hs'.response # <<>>
             /\ cmd' = "piece"
             /\ pc' = "bitfieldLen"
             /\ index' = pieceIndex
             /\ stream' = DropB(stream, 68)]_vars

\* a piece was downloaded on a connection whose handshake response carried
\* another info hash than the one sent
C24_Witness ==
    /\ cmd = "piece"
    /\ pc = "returned"
    /\ hs.n = 68
    /\ hs.response # <<>>
    /\ hs.response[1].InfoHash # Hex(handshakeMessage.InfoHash)

\* C25: decodeBencode called at an offset inside the text ends, with a value,
\* an error or a panic, and when it ends with a value the next offset is
\* greater than the start offset and at most the length of the text
C25_DecodeProgress ==
    output # <<>> =>
        /\ output[1].st \in {"ok", "err", "panic"}
        /\ output[1].st = "ok" => (output[2] < output[1].i /\ output[1].i <= Len(input))

C25_Witness ==
    /\ output # <<>>
    /\ input = <<"l", "l", "i", "3", "e", "e", "e">>
    /\ output[2] = 1
    /\ output[1] = Ok(ListVal(<<IntVal(3)>>), 6)

====
